---- MODULE Spec2Model ----
(***************************************************************************)
(* A model of the objectstore package (pkg/store/objectstore): a Store of  *)
(* fixed-size chunks of objects, handed out through chunk/offset           *)
(* References, with a free list threaded through the per-slot meta.        *)
(*                                                                         *)
(* The Go heap behind the object chunks is modelled explicitly: `heap` is  *)
(* the memory, a chunk ([]O) is the base address of its backing array and  *)
(* a *O is an address, so that "the same object" means "the same address". *)
(* Go indexes from 0 and TLA+ sequences from 1: Idx converts.  The uint32   *)
(* chunk and offset stay far below 2^32 in the runs explored, so they are  *)
(* plain naturals here.                                                    *)
(***************************************************************************)
EXTENDS Integers, Sequences, FiniteSets, TLC

\* Slots per chunk. The program uses 1024; the model scales it down so that
\* chunks fill up and new chunks are appended within the explored runs.
objectChunkSize == 2

\* Number of Alloc calls explored.
MaxAllocs == 4

\* Object values the client writes are 1..MaxVal; 0 is Go's zero value.
MaxVal == 1

\* Slots of a pointerstore slab (the tests map slabs of 32 slots).
SlabSlots == 1

\* Values of the 8-bit generation of a slot: uint8, 0..255.
GenCount == 256

\* Addresses below the generation bits of an address word.  The generation
\* sits in the top 8 bits of a 64-bit word; the model keeps the two parts of
\* the word apart the same way, with fewer address bits.
AddressSpace == 1024

\* Types the multi-type store is used with (numberOfTypes), and the
\* allocations its client makes.
numberOfTypes == 2

MaxMultiAllocs == 5

\* The largest finite float64, in the model's units: a difference beyond it
\* overflows to infinity.
MaxFloat == 4

VARIABLES
    s,          \* the Store: its fields, by their names in the source
    heap,       \* the memory holding the object chunks: address -> value
    handles,    \* what the client got from each Alloc, in call order
    call,       \* the last call made and how it ended
    misused,    \* the client has called Free on a handle it had already freed
    lastFreed,  \* handle of the latest successful Free since the last Alloc, or 0
    pmeta,      \* pointerstore: the metadata region of a slab, by address
    pool,       \* pointerstore: the free-list root and the offset of a pool
    held,       \* pointerstore: the references the client holds live
    cur,        \* pointerstore: the reference the client built last
    old,        \* pointerstore: a reference the client kept after it lost validity
    age,        \* pointerstore: Frees of old's slot, from the Free old was kept at
    pcall,      \* pointerstore: the last call on a reference and how it ended
    pools,      \* multi-type store: type index -> the pool of the type
    mhandles,   \* multi-type store: what the client got from each Alloc
    mcall,      \* multi-type store: the last call made
    views,      \* quadtree: the Views built so far, at most two
    vcall       \* quadtree: the last call on a View and what it returned

storeVars == <<s, heap, handles, call, misused, lastFreed>>

pointerVars == <<pmeta, pool, held, cur, old, age, pcall>>

multiVars == <<pools, mhandles, mcall>>

viewVars == <<views, vcall>>

vars == <<storeVars, pointerVars, multiVars, viewVars>>

Idx(i) == i + 1

\* A Reference is the chunk and the offset the store puts in it
\* (allocFromOffset); the store sets and compares nothing else.
\* NilRef is the zero value Reference[O]{}.
NilRef == [chunk |-> 0, offset |-> 0]

IsNil(r) == r.chunk = 0 /\ r.offset = 0

\* make([]meta[O], n): n zero-valued metas.
makeMeta(n) == [i \in 1..n |-> [nextFree |-> NilRef]]

\* make([]O, n): a fresh zeroed backing array at the end of the memory in
\* use. The slice is represented by the address just before its element 0.
makeObjects(hp, n) == [heap |-> hp \o [i \in 1..n |-> 0], slice |-> Len(hp)]

New ==
    LET chunkSize == objectChunkSize
        objs == makeObjects(<<>>, chunkSize)
    IN  [s |-> [chunkSize |-> chunkSize,
                allocs    |-> 0,
                frees     |-> 0,
                reused    |-> 0,
                offset    |-> 0,
                rootFree  |-> NilRef,
                meta      |-> <<makeMeta(chunkSize)>>,
                objects   |-> <<objs.slice>>],
         heap |-> objs.heap]

\* getObject with the offset taken as a 0-based index already.
getObjectOffByOne(st, r) == st.objects[Idx(r.chunk - 1)] + Idx(r.offset)

\* &s.objects[r.chunk-1][r.offset-1]
getObject(st, r) == st.objects[Idx(r.chunk - 1)] + Idx(r.offset - 1)

\* &s.meta[r.chunk-1][r.offset-1], read
getMeta(st, r) == st.meta[Idx(r.chunk - 1)][Idx(r.offset - 1)]

\* A store through the pointer getMeta returns: m.nextFree = next
setNextFree(st, r, next) ==
    [st EXCEPT !.meta[Idx(r.chunk - 1)][Idx(r.offset - 1)].nextFree = next]

\* freeMeta.nextFree = Reference[O]{}
clearNextFreeSkipped(st, alloc) == st

clearNextFree(st, alloc) == setNextFree(st, alloc, NilRef)

\* Grow-and-copy: every chunk is copied into one new backing array and the
\* list points at the copies.
appendObjectsCopy(objs, hp, n) ==
    LET base   == Len(hp)
        copies == [k \in 1..(Len(objs) * n) |->
                     hp[objs[((k - 1) \div n) + 1] + ((k - 1) % n) + 1]]
        moved  == [c \in 1..Len(objs) |-> base + (c - 1) * n]
        made   == makeObjects(hp \o copies, n)
    IN  [objects |-> Append(moved, made.slice), heap |-> made.heap]

\* s.objects = append(s.objects, make([]O, s.chunkSize)): the chunks already
\* in the list keep their backing arrays.
appendObjects(objs, hp, n) ==
    LET made == makeObjects(hp, n)
    IN  [objects |-> Append(objs, made.slice), heap |-> made.heap]

\* allocFromOffset appending the next chunk one slot before the current
\* chunk is used up.
allocFromOffsetGrowsEarly(st, hp) ==
    LET chunk  == Len(st.objects)
        offset == st.offset + 1
        full   == offset + 1 >= st.chunkSize
        grown  == IF full THEN appendObjects(st.objects, hp, st.chunkSize)
                  ELSE [objects |-> st.objects, heap |-> hp]
        st1    == [st EXCEPT !.offset = IF full THEN 0 ELSE offset,
                             !.meta = IF full THEN Append(@, makeMeta(st.chunkSize)) ELSE @,
                             !.objects = grown.objects]
    IN  [s |-> st1, heap |-> grown.heap,
         ref |-> [chunk |-> chunk, offset |-> offset],
         ptr |-> st1.objects[Idx(chunk - 1)] + Idx(offset - 1)]

\* allocFromOffset with the chunk and the offset counted from zero, as the
\* index expressions of getObject count them.
allocFromOffsetZeroBased(st, hp) ==
    LET chunk  == Len(st.objects) - 1
        offset == st.offset
        full   == st.offset + 1 = st.chunkSize
        grown  == IF full THEN appendObjects(st.objects, hp, st.chunkSize)
                  ELSE [objects |-> st.objects, heap |-> hp]
        st1    == [st EXCEPT !.offset = IF full THEN 0 ELSE st.offset + 1,
                             !.meta = IF full THEN Append(@, makeMeta(st.chunkSize)) ELSE @,
                             !.objects = grown.objects]
    IN  [s |-> st1, heap |-> grown.heap,
         ref |-> [chunk |-> chunk, offset |-> offset],
         ptr |-> st1.objects[Idx(chunk)] + Idx(offset)]

allocFromOffset(st, hp) ==
    LET chunk  == Len(st.objects)
        offset == st.offset + 1
        full   == offset = st.chunkSize
        grown  == IF full THEN appendObjects(st.objects, hp, st.chunkSize)
                  ELSE [objects |-> st.objects, heap |-> hp]
        st1    == [st EXCEPT
                     !.offset  = IF full THEN 0 ELSE offset,
                     !.meta    = IF full THEN Append(@, makeMeta(st.chunkSize)) ELSE @,
                     !.objects = grown.objects]
    IN  [s    |-> st1,
         heap |-> grown.heap,
         ref  |-> [chunk |-> chunk, offset |-> offset],
         ptr  |-> st1.objects[Idx(chunk - 1)] + Idx(offset - 1)]

\* The pop without the test for the self-linked last slot.
nextRootNoSentinel(alloc, nextFree) == nextFree

\* The root of the free list after popping alloc, whose meta held nextFree.
nextRoot(alloc, nextFree) == IF nextFree = alloc THEN NilRef ELSE nextFree

\* allocFromFree clearing the nextFree of the slot that becomes the root as
\* well as that of the slot it returns.
allocFromFreeClearsNext(st, hp) ==
    LET alloc    == st.rootFree
        nextFree == getMeta(st, alloc).nextFree
        st1      == clearNextFree(clearNextFree(st, alloc), nextFree)
        st2      == [st1 EXCEPT !.rootFree = nextRoot(alloc, nextFree)]
    IN  [s |-> st2, heap |-> hp, ref |-> alloc, ptr |-> getObject(st2, alloc)]

allocFromFree(st, hp) ==
    LET alloc    == st.rootFree
        nextFree == getMeta(st, alloc).nextFree
        st1      == clearNextFree(st, alloc)
        st2      == [st1 EXCEPT !.rootFree = nextRoot(alloc, nextFree)]
    IN  [s |-> st2, heap |-> hp, ref |-> alloc, ptr |-> getObject(st2, alloc)]

\* Alloc that never looks at the free list.
AllocNeverReuses(st, hp) == allocFromOffset([st EXCEPT !.allocs = @ + 1], hp)

\* Alloc without the s.reused++ of the free-list branch.
AllocReusedUncounted(st, hp) ==
    LET st1 == [st EXCEPT !.allocs = @ + 1]
    IN  IF IsNil(st1.rootFree) THEN allocFromOffset(st1, hp)
        ELSE allocFromFree(st1, hp)

Alloc(st, hp) ==
    LET st1 == [st EXCEPT !.allocs = @ + 1]
    IN  IF IsNil(st1.rootFree)
        THEN allocFromOffset(st1, hp)
        ELSE allocFromFree([st1 EXCEPT !.reused = @ + 1], hp)

getPanicsNever(m) == FALSE

\* The check Get makes on the meta of r before it returns the object.
getPanics(m) == ~IsNil(m.nextFree)

\* Get clearing the nextFree of a freed slot before it panics.
GetClearsFreedSlot(st, r) ==
    LET m == getMeta(st, r)
    IN  IF getPanics(m)
        THEN [panic |-> TRUE, ptr |-> 0, s |-> setNextFree(st, r, NilRef)]
        ELSE [panic |-> FALSE, ptr |-> getObject(st, r), s |-> st]

\* Get assigns nothing: the store it leaves, s, is the store it found.
Get(st, r) ==
    LET m == getMeta(st, r)
    IN  IF getPanics(m)
        THEN [panic |-> TRUE, ptr |-> 0, s |-> st]
        ELSE [panic |-> FALSE, ptr |-> getObject(st, r), s |-> st]

freePanicsNever(m) == FALSE

\* The check Free makes on the meta of r before it changes anything.
freePanics(m) == ~IsNil(m.nextFree)

\* Free that does not count the free.
FreeUncounted(st, r) ==
    LET m == getMeta(st, r)
    IN  IF freePanics(m)
        THEN [panic |-> TRUE, s |-> st]
        ELSE LET st2 == IF IsNil(st.rootFree)
                        THEN setNextFree(st, r, r)
                        ELSE setNextFree(st, r, st.rootFree)
             IN  [panic |-> FALSE, s |-> [st2 EXCEPT !.rootFree = r]]

\* Free linking the freed slot behind the root instead of in front of it.
FreeBehindRoot(st, r) ==
    LET m == getMeta(st, r)
    IN  IF freePanics(m) THEN [panic |-> TRUE, s |-> st]
        ELSE LET st1 == [st EXCEPT !.frees = @ + 1]
             IN  IF IsNil(st1.rootFree)
                 THEN [panic |-> FALSE,
                       s |-> [setNextFree(st1, r, r) EXCEPT !.rootFree = r]]
                 ELSE LET root == st1.rootFree
                          next == getMeta(st1, root).nextFree
                          st2  == setNextFree(st1, r, IF next = root THEN r ELSE next)
                      IN  [panic |-> FALSE, s |-> setNextFree(st2, root, r)]

\* Free linking every freed slot to itself, whatever the root is.
FreeAlwaysSelfLinks(st, r) ==
    LET m == getMeta(st, r)
    IN  IF freePanics(m) THEN [panic |-> TRUE, s |-> st]
        ELSE LET st1 == [st EXCEPT !.frees = @ + 1]
                 st2 == setNextFree(st1, r, r)
             IN  [panic |-> FALSE, s |-> [st2 EXCEPT !.rootFree = r]]

\* Free linking the freed slot to the root even when the root is nil.
FreeNoSentinel(st, r) ==
    LET m == getMeta(st, r)
    IN  IF freePanics(m) THEN [panic |-> TRUE, s |-> st]
        ELSE LET st1 == [st EXCEPT !.frees = @ + 1]
                 st2 == setNextFree(st1, r, st1.rootFree)
             IN  [panic |-> FALSE, s |-> [st2 EXCEPT !.rootFree = r]]

Free(st, r) ==
    LET m == getMeta(st, r)
    IN  IF freePanics(m)
        THEN [panic |-> TRUE, s |-> st]
        ELSE LET st1 == [st EXCEPT !.frees = @ + 1]
                 st2 == IF IsNil(st1.rootFree)
                        THEN setNextFree(st1, r, r)
                        ELSE setNextFree(st1, r, st1.rootFree)
             IN  [panic |-> FALSE, s |-> [st2 EXCEPT !.rootFree = r]]

\* GetStats with RawAllocs taken from the frees.
GetStatsRawFromFrees(st) ==
    [Allocs    |-> st.allocs,
     Frees     |-> st.frees,
     RawAllocs |-> st.allocs - st.frees,
     Live      |-> st.allocs - st.frees,
     Reused    |-> st.reused,
     Chunks    |-> Len(st.objects)]

GetStats(st) ==
    [Allocs    |-> st.allocs,
     Frees     |-> st.frees,
     RawAllocs |-> st.allocs - st.reused,
     Live      |-> st.allocs - st.frees,
     Reused    |-> st.reused,
     Chunks    |-> Len(st.objects)]

(***************************************************************************)
(* The memory each call touches.  A location is a field of the Store, the  *)
(* header of one of its two slices of chunks (array pointer, length and    *)
(* capacity, which an index expression reads and an append assigns), one   *)
(* element of such a slice (the header of a chunk), or one slot of a chunk.*)
(* Chunks and slots are numbered as the program indexes them, from 0.      *)
(***************************************************************************)
Field(name) == <<name>>
ChunkHeader(list, chunk) == <<list, chunk>>
Slot(list, chunk, offset) == <<list, chunk, offset>>

\* s.meta[r.chunk-1][r.offset-1] indexes s.meta and then the chunk found.
getMetaReads(r) == {Field("meta"), ChunkHeader("meta", r.chunk - 1)}

\* s.objects[r.chunk-1][r.offset-1] indexes s.objects and then the chunk.
getObjectReads(r) == {Field("objects"), ChunkHeader("objects", r.chunk - 1)}

\* What Get(r) reads: the path to the meta, m.nextFree and, unless it
\* panics, the path to the object.  It writes nothing.
GetReads(st, r) ==
    getMetaReads(r)
      \cup {Slot("meta", r.chunk - 1, r.offset - 1)}
      \cup (IF getPanics(getMeta(st, r)) THEN {} ELSE getObjectReads(r))

\* What allocFromOffset writes: s.offset and, when the chunk is full, both
\* slices of chunks (each append assigns the slice and stores the new
\* chunk's header in it).
allocFromOffsetWrites(st) ==
    {Field("offset")}
      \cup (IF st.offset + 1 = st.chunkSize
            THEN {Field("meta"), ChunkHeader("meta", Len(st.meta)),
                  Field("objects"), ChunkHeader("objects", Len(st.objects))}
            ELSE {})

\* What allocFromFree writes: the popped slot's nextFree and s.rootFree.
allocFromFreeWrites(st) ==
    {Slot("meta", st.rootFree.chunk - 1, st.rootFree.offset - 1),
     Field("rootFree")}

\* What the next Alloc writes.
AllocWrites(st) ==
    {Field("allocs")}
      \cup (IF IsNil(st.rootFree)
            THEN allocFromOffsetWrites(st)
            ELSE {Field("reused")} \cup allocFromFreeWrites(st))

\* What allocFromOffset reads: the length of s.objects, the offset, the
\* chunk size, the slices it appends to, and the chunk it takes the address
\* of the new object in.
allocFromOffsetReads(st) ==
    {Field("objects"), Field("offset"), Field("chunkSize"),
     ChunkHeader("objects", Len(st.objects) - 1)}
    \cup (IF st.offset + 1 = st.chunkSize THEN {Field("meta")} ELSE {})

\* What allocFromFree reads: the root, the meta of the slot at the root and
\* the chunk the slot's object is in.
allocFromFreeReads(st) ==
    {Field("rootFree"),
     Slot("meta", st.rootFree.chunk - 1, st.rootFree.offset - 1)}
    \cup getMetaReads(st.rootFree) \cup getObjectReads(st.rootFree)

\* What Alloc reads: s.allocs and s.rootFree, then either branch.
AllocReads(st) ==
    {Field("allocs"), Field("rootFree")}
    \cup (IF IsNil(st.rootFree) THEN allocFromOffsetReads(st)
          ELSE {Field("reused")} \cup allocFromFreeReads(st))

\* What Free(r) reads: the meta of r, and unless it panics s.frees and the
\* root.
FreeReads(st, r) ==
    getMetaReads(r) \cup {Slot("meta", r.chunk - 1, r.offset - 1)}
    \cup (IF freePanics(getMeta(st, r)) THEN {}
          ELSE {Field("frees"), Field("rootFree")})

\* Free(r) writing s.frees and the slot's nextFree only.
FreeWritesWithoutRoot(st, r) ==
    IF freePanics(getMeta(st, r)) THEN {}
    ELSE {Field("frees"), Slot("meta", r.chunk - 1, r.offset - 1)}

\* What Free(r) writes, unless it panics: s.frees, the nextFree of r's slot
\* and the root.
FreeWrites(st, r) ==
    IF freePanics(getMeta(st, r)) THEN {}
    ELSE {Field("frees"), Slot("meta", r.chunk - 1, r.offset - 1),
          Field("rootFree")}

\* What Get(r) writes: nothing.
GetWrites(st, r) == {}

\* field[i] = byte(value), through a pointer p to the object
writeToField(hp, p, value) == [hp EXCEPT ![p] = value]

Outcome(panic) == IF panic THEN "panic" ELSE "ok"

(***************************************************************************)
(* The pointerstore reference.  A RefPointer is two address words; the     *)
(* generation of the slot it was issued for sits above the address bits of *)
(* the data word.  The metadata region holds, for each slot, its current   *)
(* generation and its nextFree reference.                                  *)
(***************************************************************************)
NilRefPointer == [dataAddress |-> 0, metaAddress |-> 0]

RefPointerIsNil(r) == r.dataAddress = 0 /\ r.metaAddress = 0

\* objects, metadata := MmapSlab(conf): the addresses of the slots of the
\* two regions of one slab, every one distinct and none zero.
MmapSlab ==
    [objects  |-> [i \in 1..SlabSlots |-> i],
     metadata |-> [i \in 1..SlabSlots |-> SlabSlots + i]]

\* The metadata region as mapped: zero-initialised.
zeroedMetadata ==
    [a \in {MmapSlab.metadata[i] : i \in 1..SlabSlots} |->
        [gen |-> 0, nextFree |-> NilRefPointer]]

Gen(r) == r.dataAddress \div AddressSpace

setGen(r, gen) ==
    [r EXCEPT !.dataAddress = gen * AddressSpace + (@ % AddressSpace)]

\* The data word as it is, generation bits included.
unmaskedAddress(r) == r.dataAddress

maskedAddress(r) == r.dataAddress % AddressSpace

\* NewReference refusing a zero object address only.
NewReferenceChecksObjectOnly(pAddress, pMetadata) ==
    IF pAddress = 0
    THEN [panic |-> TRUE, ref |-> NilRefPointer]
    ELSE [panic |-> FALSE,
          ref |-> setGen([dataAddress |-> pAddress, metaAddress |-> pMetadata], 0)]

NewReference(pAddress, pMetadata) ==
    IF pAddress = 0 \/ pMetadata = 0
    THEN [panic |-> TRUE, ref |-> NilRefPointer]
    ELSE [panic |-> FALSE,
          ref |-> setGen([dataAddress |-> pAddress, metaAddress |-> pMetadata], 0)]

metadata(pm, r) == pm[r.metaAddress]

\* r.DataPtr(): panics when r's generation is not the slot's.
DataPtr(pm, r) ==
    IF Gen(r) # metadata(pm, r).gen
    THEN [panic |-> TRUE, ptr |-> 0]
    ELSE [panic |-> FALSE, ptr |-> maskedAddress(r)]

metadataPtr(pm, r) ==
    IF Gen(r) # metadata(pm, r).gen
    THEN [panic |-> TRUE, ptr |-> 0]
    ELSE [panic |-> FALSE, ptr |-> r.metaAddress]

\* Realloc handing back the reference it was called on.
ReallocWithoutBump(pm, r) == [pmeta |-> pm, ref |-> r]

\* r.Realloc(): bumps the slot's generation and returns a reference to the
\* same slot carrying the new generation.
Realloc(pm, r) ==
    LET gen == (metadata(pm, r).gen + 1) % GenCount
    IN  [pmeta |-> [pm EXCEPT ![r.metaAddress].gen = gen],
         ref   |-> setGen(r, gen)]

(***************************************************************************)
(* The pool of one size class over one slab: Allocate, Free and Get.       *)
(***************************************************************************)
PoolNew == [rootFree |-> NilRefPointer, offset |-> 0]

\* Allocate: pop the free-list root, or bump the offset.
PoolAlloc(pl, pm) ==
    IF ~RefPointerIsNil(pl.rootFree)
    THEN LET root == pl.rootFree
             m    == metadata(pm, root)
             next == IF m.nextFree = root THEN NilRefPointer ELSE m.nextFree
         IN  [pool  |-> [pl EXCEPT !.rootFree = next],
              pmeta |-> [pm EXCEPT ![root.metaAddress].nextFree = NilRefPointer],
              ref   |-> setGen(root, m.gen)]
    ELSE LET slot == pl.offset + 1
         IN  [pool  |-> [pl EXCEPT !.offset = slot],
              pmeta |-> pm,
              ref   |-> NewReference(MmapSlab.objects[slot],
                                     MmapSlab.metadata[slot]).ref]

\* Free leaving the slot's generation as it is.
PoolFreeWithoutBump(pl, pm, r) ==
    LET m == metadata(pm, r)
    IN  IF ~RefPointerIsNil(m.nextFree) \/ Gen(r) # m.gen
        THEN [panic |-> TRUE, pool |-> pl, pmeta |-> pm]
        ELSE LET next == IF RefPointerIsNil(pl.rootFree) THEN r ELSE pl.rootFree
             IN  [panic |-> FALSE,
                  pool  |-> [pl EXCEPT !.rootFree = r],
                  pmeta |-> [pm EXCEPT ![r.metaAddress].nextFree = next]]

\* Free(r): refuse a freed slot or a stale reference, bump the slot's
\* generation, link the slot in front of the free list.
PoolFree(pl, pm, r) ==
    LET m == metadata(pm, r)
    IN  IF ~RefPointerIsNil(m.nextFree) \/ Gen(r) # m.gen
        THEN [panic |-> TRUE, pool |-> pl, pmeta |-> pm]
        ELSE LET next == IF RefPointerIsNil(pl.rootFree) THEN r ELSE pl.rootFree
             IN  [panic |-> FALSE,
                  pool  |-> [pl EXCEPT !.rootFree = r],
                  pmeta |-> [pm EXCEPT ![r.metaAddress].nextFree = next,
                                       ![r.metaAddress].gen = (@ + 1) % GenCount]]

\* Get(r): refuse a stale reference or a freed slot.
PoolGet(pm, r) ==
    LET m == metadata(pm, r)
    IN  IF Gen(r) # m.gen \/ ~RefPointerIsNil(m.nextFree)
        THEN [panic |-> TRUE, ptr |-> 0]
        ELSE [panic |-> FALSE, ptr |-> maskedAddress(r)]

(***************************************************************************)
(* The multi-type store: one pool per type, found by the index of the type *)
(* and made by the first Alloc of the type.  A pool is a Store with the    *)
(* memory of its own chunks.                                               *)
(***************************************************************************)
multitypeAllocFunc(selector) == selector % numberOfTypes

\* Alloc[T](os) taking every type's slot from the pool of type 0.
MultiAllocOnePool(ps, t) ==
    LET p   == IF 0 \in DOMAIN ps THEN ps[0] ELSE New
        res == Alloc(p.s, p.heap)
    IN  [pools |-> [u \in DOMAIN ps \cup {0, t} |->
                       IF u = 0 THEN [s |-> res.s, heap |-> res.heap]
                       ELSE IF u \in DOMAIN ps THEN ps[u] ELSE New],
         ref |-> res.ref, ptr |-> res.ptr]

\* Alloc[T](os), T the type of index t: the pool of t, installed if this is
\* the first Alloc of the type, allocates.
MultiAlloc(ps, t) ==
    LET p   == IF t \in DOMAIN ps THEN ps[t] ELSE New
        res == Alloc(p.s, p.heap)
    IN  [pools |-> [u \in DOMAIN ps \cup {t} |->
                       IF u = t THEN [s |-> res.s, heap |-> res.heap] ELSE ps[u]],
         ref |-> res.ref, ptr |-> res.ptr]

\* Free[T](os, r): the pool of t frees.
MultiFree(ps, t, r) ==
    LET res == Free(ps[t].s, r)
    IN  [panic |-> res.panic, pools |-> [ps EXCEPT ![t].s = res.s]]

\* r.GetValue(), r a reference of type index t.
GetValue(ps, t, r) == Get(ps[t].s, r)

(***************************************************************************)
(* The quadtree View: a rectangle with float64 coordinates.  Finite        *)
(* floats are the integers of -MaxFloat..MaxFloat; a sum or difference     *)
(* beyond MaxFloat is +Inf, as float64 arithmetic overflows; comparisons   *)
(* are those of the numbers, +Inf above every finite value.                *)
(***************************************************************************)
Inf == 2 * MaxFloat + 1

\* a - b, for finite a and b
float64Sub(a, b) ==
    IF a - b > MaxFloat THEN Inf
    ELSE IF a - b < -MaxFloat THEN -Inf
    ELSE a - b

\* a / 2, for a >= 0 a multiple of 2 or +Inf
float64Half(a) == IF a = Inf THEN Inf ELSE a \div 2

\* a + b, for finite a and b >= 0 finite or +Inf
float64Add(a, b) ==
    IF b = Inf \/ a + b > MaxFloat THEN Inf ELSE a + b

NewView(lx, rx, ty, by) ==
    IF rx < lx \/ ty < by
    THEN [panic |-> TRUE, view |-> [lx |-> 0, rx |-> 0, ty |-> 0, by |-> 0]]
    ELSE [panic |-> FALSE, view |-> [lx |-> lx, rx |-> rx, ty |-> ty, by |-> by]]

containsPoint(v, x, y) == x >= v.lx /\ x <= v.rx /\ y >= v.by /\ y <= v.ty

crossedVertically(v, x, ty, by) ==
    IF x < v.lx \/ x > v.rx THEN FALSE
    ELSE IF by > v.ty THEN FALSE
    ELSE IF ty < v.by THEN FALSE
    ELSE TRUE

crossedHorizontally(v, y, lx, rx) ==
    IF y > v.ty \/ y < v.by THEN FALSE
    ELSE IF rx < v.lx THEN FALSE
    ELSE IF lx > v.rx THEN FALSE
    ELSE TRUE

crossedBy(v, ov) ==
    IF crossedVertically(v, ov.lx, ov.ty, ov.by) THEN TRUE
    ELSE IF crossedVertically(v, ov.rx, ov.ty, ov.by) THEN TRUE
    ELSE IF crossedHorizontally(v, ov.ty, ov.lx, ov.rx) THEN TRUE
    ELSE IF crossedHorizontally(v, ov.by, ov.lx, ov.rx) THEN TRUE
    ELSE FALSE

\* overlaps asking only whether an edge of ov passes through v.
overlapsOneWay(v, ov) == crossedBy(v, ov)

overlaps(v, ov) ==
    IF crossedBy(v, ov) THEN TRUE
    ELSE IF crossedBy(ov, v) THEN TRUE
    ELSE FALSE

\* quarters panics when one of its four NewView calls does.
quarters(v) ==
    LET lx   == v.lx
        rx   == v.rx
        ty   == v.ty
        by   == v.by
        midx == float64Add(lx, float64Half(float64Sub(rx, lx)))
        midy == float64Add(by, float64Half(float64Sub(ty, by)))
        q1   == NewView(lx, midx, ty, midy)
        q2   == NewView(midx, rx, ty, midy)
        q3   == NewView(lx, midx, midy, by)
        q4   == NewView(midx, rx, midy, by)
        panic == q1.panic \/ q2.panic \/ q3.panic \/ q4.panic
    IN  [panic |-> panic,
         views |-> IF panic THEN <<>> ELSE <<q1.view, q2.view, q3.view, q4.view>>]

\* A new Store and its client; a slab just mapped, an empty pool over it and
\* a client holding no reference; a multi-type store with no pool yet; no
\* View built yet.
Init ==
    /\ s = New.s
    /\ heap = New.heap
    /\ handles = <<>>
    /\ call = [op |-> "New", id |-> 0, result |-> "ok", ptr |-> 0]
    /\ misused = FALSE
    /\ lastFreed = 0
    /\ pmeta = zeroedMetadata
    /\ pool = PoolNew
    /\ held = {}
    /\ cur = NilRefPointer
    /\ old = NilRefPointer
    /\ age = 0
    /\ pcall = [op |-> "MmapSlab", a |-> 0, b |-> 0, result |-> "ok", ptr |-> 0]
    /\ pools = <<>>
    /\ mhandles = <<>>
    /\ mcall = [op |-> "New", type |-> 0, id |-> 0]
    /\ views = <<>>
    /\ vcall = [op |-> "none", result |-> "ok", value |-> <<>>]

\* ref, obj := store.Alloc(); the client keeps both.
DoAlloc ==
    /\ Len(handles) < MaxAllocs
    /\ LET res == Alloc(s, heap)
           id  == Len(handles) + 1
       IN  /\ s' = res.s
           /\ heap' = res.heap
           /\ handles' = Append(handles, [ref |-> res.ref, ptr |-> res.ptr,
                                          live |-> TRUE, written |-> 0,
                                          freedAt |-> 0, freedSeq |-> 0])
           /\ call' = [op |-> "Alloc", id |-> id, result |-> "ok", ptr |-> res.ptr]
    /\ lastFreed' = 0
    /\ UNCHANGED <<misused, pointerVars, multiVars, viewVars>>

\* store.Free(ref) with the reference of handle id, live or not.
DoFree(id) ==
    LET h   == handles[id]
        res == Free(s, h.ref)
    IN  /\ s' = res.s
        /\ handles' = IF res.panic THEN handles
                      ELSE [handles EXCEPT ![id].live = FALSE,
                                           ![id].freedAt = s.allocs,
                                           ![id].freedSeq = res.s.frees]
        /\ call' = [op |-> "Free", id |-> id, result |-> Outcome(res.panic), ptr |-> 0]
        /\ misused' = (misused \/ ~h.live)
        /\ lastFreed' = IF res.panic THEN lastFreed ELSE id
        /\ UNCHANGED <<heap, pointerVars, multiVars, viewVars>>

\* store.Get(ref) with the reference of handle id, live or not.
DoGet(id) ==
    LET res == Get(s, handles[id].ref)
    IN  /\ s' = res.s
        /\ call' = [op |-> "Get", id |-> id, result |-> Outcome(res.panic), ptr |-> res.ptr]
        /\ UNCHANGED <<heap, handles, misused, lastFreed, pointerVars, multiVars, viewVars>>

\* The client writes value through a pointer to the object of a handle it
\* holds live: the one Alloc returned, or the one a Get returns now.
DoWrite(id, value, viaGet) ==
    LET h   == handles[id]
        got == Get(s, h.ref)
        p   == IF viaGet THEN got.ptr ELSE h.ptr
    IN  /\ h.live
        /\ viaGet => ~got.panic
        /\ heap' = writeToField(heap, p, value)
        /\ handles' = [handles EXCEPT ![id].written = value]
        /\ call' = [op |-> "Write", id |-> id, result |-> "ok", ptr |-> p]
        /\ UNCHANGED <<s, misused, lastFreed, pointerVars, multiVars, viewVars>>

\* store.GetStats(): reads the store; its result is GetStats(s).
DoGetStats ==
    /\ call' = [op |-> "GetStats", id |-> 0, result |-> "ok", ptr |-> 0]
    /\ UNCHANGED <<s, heap, handles, misused, lastFreed, pointerVars, multiVars, viewVars>>

\* The calls of the store, made with any reference the client ever got,
\* freed or not.
Next ==
    \/ DoAlloc
    \/ \E id \in 1..Len(handles) : DoFree(id)
    \/ \E id \in 1..Len(handles) : DoGet(id)
    \/ DoGetStats

Spec == Init /\ [][Next]_vars

\* A client that follows the package's rules (each reference freed once and
\* never used afterwards) and reads and writes its objects.
NextRW ==
    \/ DoAlloc
    \/ \E id \in 1..Len(handles) : handles[id].live /\ DoFree(id)
    \/ \E id \in 1..Len(handles) : handles[id].live /\ DoGet(id)
    \/ \E id \in 1..Len(handles), value \in 1..MaxVal, viaGet \in BOOLEAN :
           DoWrite(id, value, viaGet)

SpecRW == Init /\ [][NextRW]_vars

(***************************************************************************)
(* What the claims speak of.                                               *)
(***************************************************************************)
(***************************************************************************)
(* The pointerstore reference, used as its tests use it: a reference is    *)
(* built for a slot of a fresh slab, its generation is set, it is          *)
(* reallocated, and it and its predecessor are dereferenced.               *)
(***************************************************************************)
\* r := NewReference(pAddress, pMetadata)
DoNewReference(pAddress, pMetadata) ==
    LET res == NewReference(pAddress, pMetadata)
    IN  /\ RefPointerIsNil(cur)
        /\ cur' = res.ref
        /\ pcall' = [op |-> "NewReference", a |-> pAddress, b |-> pMetadata,
                     result |-> Outcome(res.panic), ptr |-> 0]
        /\ UNCHANGED <<pmeta, pool, held, old, age, storeVars, multiVars, viewVars>>

\* metadata.gen = gen; r.setGen(gen), on a reference not yet reallocated.
\* pcall keeps the address r.DataPtr() returned before.
DoSetGen(gen) ==
    /\ ~RefPointerIsNil(cur)
    /\ RefPointerIsNil(old)
    /\ pmeta' = [pmeta EXCEPT ![cur.metaAddress].gen = gen]
    /\ cur' = setGen(cur, gen)
    /\ pcall' = [op |-> "setGen", a |-> gen, b |-> 0, result |-> "ok",
                 ptr |-> DataPtr(pmeta, cur).ptr]
    /\ UNCHANGED <<pool, held, old, age, storeVars, multiVars, viewVars>>

\* r2 := r1.Realloc(); the client keeps r1 as old.
DoRealloc ==
    LET res == Realloc(pmeta, cur)
    IN  /\ ~RefPointerIsNil(cur)
        /\ pmeta' = res.pmeta
        /\ cur' = res.ref
        /\ old' = cur
        /\ pcall' = [op |-> "Realloc", a |-> cur.dataAddress, b |-> cur.metaAddress,
                     result |-> "ok", ptr |-> 0]
        /\ UNCHANGED <<pool, held, age, storeVars, multiVars, viewVars>>

\* r.DataPtr(), r the current reference or the one kept.
DoDataPtr(r) ==
    LET res == DataPtr(pmeta, r)
    IN  /\ ~RefPointerIsNil(r)
        /\ pcall' = [op |-> "DataPtr", a |-> r.dataAddress, b |-> r.metaAddress,
                     result |-> Outcome(res.panic), ptr |-> res.ptr]
        /\ UNCHANGED <<pmeta, pool, held, cur, old, age, storeVars, multiVars, viewVars>>

NextRef ==
    \/ \E i \in 1..SlabSlots :
         \E pAddress \in {0, MmapSlab.objects[i]}, pMetadata \in {0, MmapSlab.metadata[i]} :
            DoNewReference(pAddress, pMetadata)
    \/ \E gen \in 0..(GenCount - 1) : DoSetGen(gen)
    \/ DoRealloc
    \/ \E r \in {cur, old} : DoDataPtr(r)

SpecRef == Init /\ [][NextRef]_vars

(***************************************************************************)
(* The pool with a client that frees only references it holds and keeps    *)
(* the first reference it frees.                                           *)
(***************************************************************************)
\* Frees of the kept reference's slot the model follows: one past a full
\* cycle of generations.
MaxAge == GenCount + 1

SameSlot(r1, r2) == r1.metaAddress = r2.metaAddress

DoPoolAlloc ==
    LET res == PoolAlloc(pool, pmeta)
    IN  /\ ~RefPointerIsNil(pool.rootFree) \/ pool.offset < SlabSlots
        /\ pool' = res.pool
        /\ pmeta' = res.pmeta
        /\ held' = held \cup {res.ref}
        /\ UNCHANGED <<cur, old, age, pcall, storeVars, multiVars, viewVars>>

DoPoolFree(r) ==
    LET res == PoolFree(pool, pmeta, r)
    IN  /\ r \in held
        /\ (~RefPointerIsNil(old) /\ SameSlot(r, old)) => age < MaxAge
        /\ ~res.panic
        /\ pool' = res.pool
        /\ pmeta' = res.pmeta
        /\ held' = held \ {r}
        /\ old' = IF RefPointerIsNil(old) THEN r ELSE old
        /\ age' = IF RefPointerIsNil(old) THEN 1
                  ELSE IF SameSlot(r, old) THEN age + 1 ELSE age
        /\ UNCHANGED <<cur, pcall, storeVars, multiVars, viewVars>>

NextGen ==
    \/ DoPoolAlloc
    \/ \E r \in held : DoPoolFree(r)

SpecGen == Init /\ [][NextGen]_vars

(***************************************************************************)
(* The multi-type store with the client of its tests: allocation number i  *)
(* is of type i % numberOfTypes and has i written to it; objects are       *)
(* fetched again and modified, and freed.                                  *)
(***************************************************************************)

\* allocAndWrite(os, selector), selector the number of allocations so far.
DoAllocAndWrite ==
    LET selector == Len(mhandles)
        t        == multitypeAllocFunc(selector)
        res      == MultiAlloc(pools, t)
    IN  /\ Len(mhandles) < MaxMultiAllocs
        /\ pools' = [res.pools EXCEPT ![t].heap = writeToField(@, res.ptr, selector)]
        /\ mhandles' = Append(mhandles, [type |-> t, ref |-> res.ref, ptr |-> res.ptr,
                                         live |-> TRUE, written |-> selector])
        /\ mcall' = [op |-> "Alloc", type |-> t, id |-> selector + 1]
        /\ UNCHANGED <<storeVars, pointerVars, viewVars>>

\* s := alloc.getSlice(); writeToField(s, i*2), for a live allocation.
DoGetAndWrite(id) ==
    LET h   == mhandles[id]
        got == GetValue(pools, h.type, h.ref)
        value == (id - 1) * 2
    IN  /\ h.live
        /\ ~got.panic
        /\ pools' = [pools EXCEPT ![h.type].heap = writeToField(@, got.ptr, value)]
        /\ mhandles' = [mhandles EXCEPT ![id].written = value]
        /\ mcall' = [op |-> "Write", type |-> h.type, id |-> id]
        /\ UNCHANGED <<storeVars, pointerVars, viewVars>>

\* alloc.free(os), for a live allocation.
DoMultiFree(id) ==
    LET h   == mhandles[id]
        res == MultiFree(pools, h.type, h.ref)
    IN  /\ h.live
        /\ ~res.panic
        /\ pools' = res.pools
        /\ mhandles' = [mhandles EXCEPT ![id].live = FALSE]
        /\ mcall' = [op |-> "Free", type |-> h.type, id |-> id]
        /\ UNCHANGED <<storeVars, pointerVars, viewVars>>

NextMulti ==
    \/ DoAllocAndWrite
    \/ \E id \in 1..Len(mhandles) : DoGetAndWrite(id)
    \/ \E id \in 1..Len(mhandles) : DoMultiFree(id)

SpecMulti == Init /\ [][NextMulti]_vars

(***************************************************************************)
(* Views: two are built with NewView from coordinates that are whole       *)
(* numbers (multiples of 2 in the model's units, so that a half is exact), *)
(* then overlaps is asked of the two and quarters of the first.            *)
(***************************************************************************)
Coords == {c \in (-MaxFloat)..MaxFloat : c % 2 = 0}

DoNewView(lx, rx, ty, by) ==
    LET res == NewView(lx, rx, ty, by)
    IN  /\ Len(views) < 2
        /\ views' = IF res.panic THEN views ELSE Append(views, res.view)
        /\ vcall' = [op |-> "NewView", result |-> Outcome(res.panic), value |-> <<>>]
        /\ UNCHANGED <<storeVars, pointerVars, multiVars>>

DoOverlaps ==
    /\ Len(views) = 2
    /\ vcall' = [op |-> "overlaps", result |-> "ok",
                 value |-> overlaps(views[1], views[2])]
    /\ UNCHANGED <<views, storeVars, pointerVars, multiVars>>

DoQuarters ==
    LET res == quarters(views[1])
    IN  /\ Len(views) = 2
        /\ vcall' = [op |-> "quarters", result |-> Outcome(res.panic),
                     value |-> res.views]
        /\ UNCHANGED <<views, storeVars, pointerVars, multiVars>>

NextView ==
    \/ \E lx, rx, ty, by \in Coords : DoNewView(lx, rx, ty, by)
    \/ DoOverlaps
    \/ DoQuarters

SpecView == Init /\ [][NextView]_vars

Ids == 1..Len(handles)

\* The client holds handle id live: Alloc returned it and the client has not
\* freed it.
Held(id) == id \in Ids /\ handles[id].live

\* The client has freed handle id and no Alloc made since that Free has
\* handed out its slot again (handle j comes from the j-th Alloc).
FreedNotReused(id) ==
    /\ id \in Ids
    /\ ~handles[id].live
    /\ \A j \in Ids : j > handles[id].freedAt => handles[j].ref # handles[id].ref

\* The client has freed handle id, its slot has been handed out again and
\* the client holds the new handle live.
StaleWithOwner(id) ==
    /\ ~misused
    /\ id \in Ids
    /\ ~handles[id].live
    /\ \E j \in Ids : handles[j].live /\ handles[j].ref = handles[id].ref

Owner(id) == CHOOSE j \in Ids : handles[j].live /\ handles[j].ref = handles[id].ref

\* C1. Round trip: for every reference Alloc returned and the client has
\* not freed, Get succeeds and returns the very pointer Alloc returned with
\* it, and the object behind it holds the value last written through either
\* pointer.
RoundTrip ==
    /\ \A id \in Ids :
         Held(id) =>
           LET h   == handles[id]
               got == Get(s, h.ref)
           IN  /\ ~got.panic
               /\ got.ptr = h.ptr
               /\ h.written # 0 => heap[got.ptr] = h.written
    /\ (call.op = "Get" /\ Held(call.id)) =>
           /\ call.result = "ok"
           /\ call.ptr = handles[call.id].ptr

\* A Get has returned the object of a handle of the second chunk that was
\* written before, and the object holds what was written.
RoundTripWitness ==
    /\ call.op = "Get"
    /\ call.result = "ok"
    /\ Held(call.id)
    /\ handles[call.id].ref.chunk = 2
    /\ handles[call.id].written = MaxVal
    /\ heap[call.ptr] = MaxVal

\* C2. Stability: an Alloc, also one that fills the chunk and appends a new
\* one, leaves every held reference designating the same address, leaves
\* the object at that address as it was, and so leaves the value last
\* written readable through the reference.
Stability ==
    [][call'.op = "Alloc" =>
         \A id \in Ids :
           Held(id) =>
             LET h == handles[id]
             IN  /\ getObject(s', h.ref) = getObject(s, h.ref)
                 /\ heap'[getObject(s', h.ref)] = heap[getObject(s, h.ref)]
                 /\ heap'[h.ptr] = heap[h.ptr]
                 /\ h.written # 0 => heap'[Get(s', h.ref).ptr] = h.written]_vars

\* The first handle was written, is still held, and two chunks have been
\* appended since; the last call was an Alloc.
StabilityWitness ==
    /\ call.op = "Alloc"
    /\ Len(s.objects) >= 3
    /\ Held(1)
    /\ handles[1].written # 0
    /\ heap[Get(s, handles[1].ref).ptr] = handles[1].written

\* C3. No aliasing of live slots: as long as the client has freed no
\* handle twice, any two handles it holds live designate different slots,
\* by reference and by address.
NoAliasing ==
    ~misused =>
      \A i, j \in Ids :
        (Held(i) /\ Held(j) /\ i # j) =>
          /\ handles[i].ref # handles[j].ref
          /\ handles[i].ptr # handles[j].ptr
          /\ getObject(s, handles[i].ref) # getObject(s, handles[j].ref)

\* An Alloc has just reused a slot for the second time while another handle
\* is held live.
NoAliasingWitness ==
    /\ ~misused
    /\ call.op = "Alloc"
    /\ s.reused >= 2
    /\ \E i \in Ids : i # call.id /\ Held(i)

\* C4. Double-free detection: a Free of a handle the client has freed, with
\* no Alloc since that Free, panics and leaves the store (free list, every
\* meta, counters) and the objects as they were.
DoubleFreePanics ==
    [][(/\ call'.op = "Free"
        /\ ~handles[call'.id].live
        /\ handles[call'.id].freedAt = s.allocs)
       => (call'.result = "panic" /\ s' = s /\ heap' = heap)]_vars

\* A second Free of a handle, with no Alloc in between, has panicked.
DoubleFreeWitness ==
    /\ call.op = "Free"
    /\ call.result = "panic"
    /\ ~handles[call.id].live
    /\ handles[call.id].freedAt = s.allocs

\* C5, as stated. Use-after-free detection: a Get with the reference of a
\* handle the client has freed panics.
UseAfterFreeAlwaysPanics ==
    (call.op = "Get" /\ ~handles[call.id].live) => call.result = "panic"

\* C5, amended. A Get with the reference of a freed handle panics as long
\* as no later Alloc has handed the slot out again.
UseAfterFreePanicsUntilReuse ==
    /\ \A id \in Ids : FreedNotReused(id) => Get(s, handles[id].ref).panic
    /\ (call.op = "Get" /\ FreedNotReused(call.id)) => call.result = "panic"

\* A Get with a freed reference has panicked.
UseAfterFreeWitness ==
    /\ call.op = "Get"
    /\ call.result = "panic"
    /\ FreedNotReused(call.id)

\* Scenario S3: A, B and C were allocated, B was freed after that, D was
\* allocated next, and nothing else has been freed.
S3 ==
    /\ Len(handles) = 4
    /\ ~misused
    /\ s.frees = 1
    /\ Held(1) /\ Held(3) /\ Held(4)
    /\ ~handles[2].live
    /\ handles[2].freedAt = 3

\* C6, as stated. In S3, D designates B's slot, D differs from B in its
\* generation (so D and B are different references), a Get with the saved
\* B panics and a Get with D succeeds.
FreeAndReuseDetectsB ==
    S3 =>
      LET B == handles[2]
          D == handles[4]
      IN  /\ D.ptr = B.ptr
          /\ D.ref # B.ref
          /\ Get(s, B.ref).panic
          /\ ~Get(s, D.ref).panic

\* C6, amended. In S3, D designates B's slot and D is the same reference as
\* B (a Reference is a chunk and an offset, with no generation); a Get with
\* the saved B does not panic and returns D's object; a Get with D succeeds.
FreeAndReuseSameReference ==
    S3 =>
      LET B == handles[2]
          D == handles[4]
      IN  /\ D.ptr = B.ptr
          /\ getObject(s, D.ref) = B.ptr
          /\ D.ref = B.ref
          /\ ~Get(s, B.ref).panic
          /\ Get(s, B.ref).ptr = D.ptr
          /\ ~Get(s, D.ref).panic
          /\ (call.op = "Get" /\ call.id \in {2, 4}) =>
                 (call.result = "ok" /\ call.ptr = D.ptr)

\* In S3, a Get with the saved B has just been made.
FreeAndReuseWitness == S3 /\ call.op = "Get" /\ call.id = 2

\* C7. After a Free, the next Alloc returns the freed reference and its
\* object; from then on, while the client holds the new handle, a Get with
\* the old handle returns the new handle's object and a Free with the old
\* handle frees that object, neither panicking.
ReuseMakesOldReferenceValid ==
    [][/\ (call'.op = "Alloc" /\ lastFreed # 0) =>
             /\ handles'[call'.id].ref = handles[lastFreed].ref
             /\ handles'[call'.id].ptr = handles[lastFreed].ptr
             /\ s'.reused = s.reused + 1
       /\ (call'.op = "Get" /\ StaleWithOwner(call'.id)) =>
             /\ call'.result = "ok"
             /\ call'.ptr = handles[Owner(call'.id)].ptr
       /\ (call'.op = "Free" /\ StaleWithOwner(call'.id)) =>
             /\ call'.result = "ok"
             /\ Get(s', handles[Owner(call'.id)].ref).panic]_vars

\* A Free with an old handle whose slot has a new owner has succeeded.
ReuseWitness ==
    /\ misused
    /\ call.op = "Free"
    /\ call.result = "ok"
    /\ \E j \in Ids : j # call.id /\ Held(j) /\ handles[j].ref = handles[call.id].ref

\* C8, as stated. A Free with an old handle whose slot has been handed out
\* to a new owner panics and leaves the new owner's slot off the free list.
StaleFreeRejected ==
    [][(call'.op = "Free" /\ StaleWithOwner(call'.id)) =>
         /\ call'.result = "panic"
         /\ s'.rootFree # handles[call'.id].ref
         /\ IsNil(getMeta(s', handles[call'.id].ref).nextFree)]_vars

\* C8, amended. A Free with an old handle whose slot has been handed out to
\* a new owner does not panic: it counts as a free, links the new owner's
\* slot into the free list and makes it the root.  A Free with an old
\* handle panics, and changes nothing, only while the slot has not been
\* handed out again.
StaleFreeFreesNewOwner ==
    [][/\ (call'.op = "Free" /\ StaleWithOwner(call'.id)) =>
             /\ call'.result = "ok"
             /\ s'.frees = s.frees + 1
             /\ s'.rootFree = handles[call'.id].ref
             /\ ~IsNil(getMeta(s', handles[call'.id].ref).nextFree)
       /\ (call'.op = "Free" /\ FreedNotReused(call'.id)) =>
             (call'.result = "panic" /\ s' = s)]_vars

\* The slot of a handle the client still holds live is the root of the free
\* list, put there by a Free with an old handle.
StaleFreeWitness ==
    /\ call.op = "Free"
    /\ call.result = "ok"
    /\ \E j \in Ids :
         /\ j # call.id
         /\ Held(j)
         /\ handles[j].ref = handles[call.id].ref
         /\ s.rootFree = handles[j].ref

\* ceil(a / b)
CeilDiv(a, b) == (a + b - 1) \div b

\* C9. Stats accounting: GetStats reports Live = Allocs - Frees, Reused <=
\* Allocs, RawAllocs = Allocs - Reused and Chunks >= ceil(RawAllocs /
\* chunkSize), where Allocs is the number of Alloc calls made, RawAllocs
\* the number of different slots handed out and, for a client that frees
\* nothing twice, Live the number of handles it holds.
StatsAccounting ==
    LET stats == GetStats(s)
    IN  /\ stats.Live = stats.Allocs - stats.Frees
        /\ stats.Reused <= stats.Allocs
        /\ stats.RawAllocs = stats.Allocs - stats.Reused
        /\ stats.Chunks >= CeilDiv(stats.RawAllocs, s.chunkSize)
        /\ stats.Allocs = Len(handles)
        /\ stats.RawAllocs = Cardinality({handles[id].ref : id \in Ids})
        /\ ~misused => stats.Live = Cardinality({id \in Ids : Held(id)})

\* GetStats is called after allocations that filled a chunk, frees and a
\* reuse.
StatsWitness ==
    /\ call.op = "GetStats"
    /\ GetStats(s).Chunks >= 2
    /\ GetStats(s).Frees >= 2
    /\ GetStats(s).Reused >= 1
    /\ GetStats(s).Live >= 1

\* The locations the claim names: the bump offset, the two lists of chunks
\* (with their lengths) and the root of the free list.
StoreBookkeeping ==
    {Field("offset"), Field("meta"), Field("objects"), Field("rootFree")}

\* C10. Independent read safety: a Get with a reference the client holds
\* live reads nothing that an Alloc running at the same time writes, and
\* reads none of the bump offset, the lists of chunks and the root of the
\* free list.
IndependentReadSafety ==
    \A id \in Ids :
      (~misused /\ Held(id)) =>
        /\ GetReads(s, handles[id].ref) \cap AllocWrites(s) = {}
        /\ GetReads(s, handles[id].ref) \cap StoreBookkeeping = {}

\* ---------------------------------------------------------------------
\* C11: Nil identity. The zero-value Reference is nil, and no Reference
\* that Alloc has returned is nil, whether its slot came from the bump
\* offset or from the free list.
NilIdentity ==
    /\ IsNil(NilRef)
    /\ \A id \in Ids : ~IsNil(handles[id].ref)

\* The last call was an Alloc that took its slot from the free list, after
\* earlier ones that took theirs from the offset.
NilIdentityWitness ==
    /\ call.op = "Alloc"
    /\ \E i \in Ids : i < call.id /\ handles[i].ref = handles[call.id].ref
    /\ \E i, j \in Ids : handles[i].ref # handles[j].ref

\* ---------------------------------------------------------------------
\* C16: Reuse correctness. The handles freed when a handles had been
\* allocated, and the handles allocated after them.
FreedBatch(a) == {i \in Ids : ~handles[i].live /\ handles[i].freedAt = a}

AllocBatch(a) == {j \in Ids : j > a}

\* k >= 1 Frees of distinct live references, made when a Allocs had been
\* made, followed by k Allocs and by no other Free.
FreesThenAllocs(a) ==
    /\ ~misused
    /\ a \in Ids
    /\ FreedBatch(a) # {}
    /\ Cardinality(AllocBatch(a)) = Cardinality(FreedBatch(a))
    /\ \A i \in Ids : ~handles[i].live => handles[i].freedAt <= a

\* The slots the store had handed out when a Allocs had been made.
SlotsAt(a) == {handles[i].ptr : i \in 1..a}

\* C16 as stated: after k Frees followed by k Allocs the references returned
\* designate exactly the freed slots, RawAllocs is unchanged, Reused has
\* grown by k, and each returned reference differs from the freed reference
\* of its slot (by a generation one greater).
ReuseBumpsGeneration ==
    \A a \in Ids : FreesThenAllocs(a) =>
        /\ {handles[j].ptr : j \in AllocBatch(a)} = {handles[i].ptr : i \in FreedBatch(a)}
        /\ GetStats(s).RawAllocs = Cardinality(SlotsAt(a))
        /\ GetStats(s).Reused = (a - Cardinality(SlotsAt(a))) + Cardinality(FreedBatch(a))
        /\ \A j \in AllocBatch(a) : \E i \in FreedBatch(a) :
              /\ handles[i].ptr = handles[j].ptr
              /\ handles[j].ref # handles[i].ref

\* C16, amended: after k Frees followed by k Allocs the references returned
\* are exactly the freed references, each designating the slot it designated
\* before; none comes from the bump offset: RawAllocs is unchanged and
\* Reused has grown by k.
ReuseCorrectness ==
    \A a \in Ids : FreesThenAllocs(a) =>
        /\ {handles[j].ref : j \in AllocBatch(a)} = {handles[i].ref : i \in FreedBatch(a)}
        /\ \A j \in AllocBatch(a) : \E i \in FreedBatch(a) :
              handles[i].ref = handles[j].ref /\ handles[i].ptr = handles[j].ptr
        /\ GetStats(s).RawAllocs = Cardinality(SlotsAt(a))
        /\ GetStats(s).Reused = (a - Cardinality(SlotsAt(a))) + Cardinality(FreedBatch(a))

\* Two Frees followed by two Allocs.
ReuseCorrectnessWitness ==
    \E a \in Ids : FreesThenAllocs(a) /\ Cardinality(FreedBatch(a)) >= 2

\* ---------------------------------------------------------------------
\* C17: Free-list sentinel (scenario S5). A Free(r) made while the free list
\* is empty leaves the root at r and r's nextFree at r itself; an Alloc made
\* while the root is such a self-linked slot returns that slot, leaves the
\* root nil and the slot's nextFree nil, and adds one to reused.
FreeListSentinel ==
    [][ /\ (call'.op = "Free" /\ call'.result = "ok" /\ IsNil(s.rootFree)) =>
              LET r == handles[call'.id].ref
              IN  /\ s'.rootFree = r
                  /\ getMeta(s', r).nextFree = r
        /\ (call'.op = "Alloc" /\ ~IsNil(s.rootFree)
                /\ getMeta(s, s.rootFree).nextFree = s.rootFree) =>
              /\ handles'[call'.id].ref = s.rootFree
              /\ handles'[call'.id].ptr = getObject(s, s.rootFree)
              /\ IsNil(s'.rootFree)
              /\ IsNil(getMeta(s', s.rootFree).nextFree)
              /\ s'.reused = s.reused + 1
      ]_vars

\* S5 has run: the last call is an Alloc that returned the slot of the one
\* Free made since the Alloc before it, and the free list is empty again.
FreeListSentinelWitness ==
    /\ call.op = "Alloc"
    /\ IsNil(s.rootFree)
    /\ s.frees = 1
    /\ s.reused = 1
    /\ \E i \in Ids : i < call.id /\ handles[i].ref = handles[call.id].ref

\* ---------------------------------------------------------------------
\* C20: Free-list shape. Every slot of the store, and the slots met from a
\* reference by following nextFree until a slot links to itself or to nil;
\* fuel bounds the walk, so that a cycle shows as a chain longer than the
\* number of slots.
AllSlots(st) ==
    {[chunk |-> c, offset |-> o] : c \in 1..Len(st.meta), o \in 1..st.chunkSize}

RECURSIVE FreeChain(_, _, _)
FreeChain(st, r, fuel) ==
    IF IsNil(r) \/ fuel = 0 THEN <<>>
    ELSE LET next == getMeta(st, r).nextFree
         IN  IF next = r \/ IsNil(next) THEN <<r>>
             ELSE <<r>> \o FreeChain(st, next, fuel - 1)

FreeList(st) == FreeChain(st, st.rootFree, Cardinality(AllSlots(st)) + 1)

SelfLinked(st, r) == getMeta(st, r).nextFree = r

\* The free list is empty, or it is a chain from the root along nextFree
\* that visits no slot twice and ends at a slot linked to itself; no slot
\* other than that last one is linked to itself.
FreeListShape ==
    LET chain == FreeList(s)
        last  == chain[Len(chain)]
    IN  /\ IsNil(s.rootFree) <=> chain = <<>>
        /\ Len(chain) <= Cardinality(AllSlots(s))
        /\ \A i, j \in 1..Len(chain) : chain[i] = chain[j] => i = j
        /\ chain # <<>> => SelfLinked(s, last)
        /\ \A r \in AllSlots(s) : SelfLinked(s, r) => chain # <<>> /\ r = last

\* The free list holds three slots after Frees and Allocs in some order.
FreeListShapeWitness ==
    /\ ~misused
    /\ Len(FreeList(s)) >= 3
    /\ s.reused >= 1

\* ---------------------------------------------------------------------
\* C19: Free/Alloc conflict. The locations a Free(r) running from store
\* state stF and an Alloc running from store state stA both access, at
\* least one of the two writing.
RaceLocations(stF, stA, r) ==
    (FreeWrites(stF, r) \cap (AllocReads(stA) \cup AllocWrites(stA)))
    \cup (AllocWrites(stA) \cap FreeReads(stF, r))

\* For every Free that takes effect and an Alloc with no happens-before
\* between them (both starting from the current state, or either one from
\* the state the other leaves), the free-list root is a location both
\* access and Free writes: the pair is a data race.
FreeAllocConflict ==
    \A id \in Ids :
        LET r == handles[id].ref
        IN  ~Free(s, r).panic =>
              /\ Field("rootFree") \in RaceLocations(s, s, r)
              /\ Field("rootFree") \in RaceLocations(s, Free(s, r).s, r)
              /\ Field("rootFree") \in RaceLocations(Alloc(s, heap).s, s, r)

\* Independent references: the Alloc takes a fresh slot from the offset
\* without appending a chunk, the Free is of a live reference, and the root
\* is the only location the two share.
FreeAllocConflictWitness ==
    /\ ~misused
    /\ IsNil(s.rootFree)
    /\ \E id \in Ids :
          /\ Held(id)
          /\ RaceLocations(s, s, handles[id].ref) = {Field("rootFree")}

\* ---------------------------------------------------------------------
\* C12: Realloc contract. r2 := r.Realloc() gives a reference with the data
\* address and the metadata address of r and another generation; after it
\* r2.DataPtr() succeeds, with the address r.DataPtr() gave before, and
\* r.DataPtr() panics, in the Realloc's own step and in every DataPtr call
\* made later.
ReallocContract ==
    [][ /\ pcall'.op = "Realloc" =>
              LET r == cur  r2 == cur'
              IN  /\ old' = r
                  /\ maskedAddress(r2) = maskedAddress(r)
                  /\ r2.metaAddress = r.metaAddress
                  /\ Gen(r2) # Gen(r)
                  /\ ~DataPtr(pmeta', r2).panic
                  /\ DataPtr(pmeta', r2).ptr = DataPtr(pmeta, r).ptr
                  /\ metadataPtr(pmeta', r2).ptr = metadataPtr(pmeta, r).ptr
                  /\ DataPtr(pmeta', r).panic
        /\ (pcall'.op = "DataPtr" /\ ~RefPointerIsNil(old)) =>
              /\ (pcall'.a = old.dataAddress /\ pcall'.b = old.metaAddress)
                    => pcall'.result = "panic"
              /\ (pcall'.a = cur.dataAddress /\ pcall'.b = cur.metaAddress)
                    => pcall'.result = "ok" /\ pcall'.ptr = maskedAddress(old)
      ]_vars

\* A Realloc has taken the generation from its last value round to 0.
ReallocWitness ==
    /\ pcall.op = "Realloc"
    /\ Gen(old) = GenCount - 1
    /\ Gen(cur) = 0

\* ---------------------------------------------------------------------
\* C13: Tag hiding. For every generation 0..255 set on a reference (and on
\* its slot), DataPtr and metadataPtr return what they returned before, the
\* addresses of the slot in the slab, and Gen returns the generation set.
TagHiding ==
    [][ pcall'.op = "setGen" =>
          /\ pcall'.a \in 0..(GenCount - 1)
          /\ ~DataPtr(pmeta', cur').panic
          /\ DataPtr(pmeta', cur').ptr = DataPtr(pmeta, cur).ptr
          /\ metadataPtr(pmeta', cur').ptr = metadataPtr(pmeta, cur).ptr
          /\ Gen(cur') = pcall'.a
          /\ \E i \in 1..SlabSlots :
                /\ DataPtr(pmeta', cur').ptr = MmapSlab.objects[i]
                /\ metadataPtr(pmeta', cur').ptr = MmapSlab.metadata[i]
      ]_vars

\* The largest generation has been set.
TagHidingWitness ==
    /\ pcall.op = "setGen"
    /\ pcall.a = GenCount - 1
    /\ Gen(cur) = GenCount - 1
    /\ pcall.ptr = DataPtr(pmeta, cur).ptr

\* ---------------------------------------------------------------------
\* C15: Nil construction. NewReference panics exactly when the object
\* address or the metadata address is zero, and then builds no reference.
NilConstruction ==
    [][ pcall'.op = "NewReference" =>
          /\ pcall'.result = "panic" <=> (pcall'.a = 0 \/ pcall'.b = 0)
          /\ pcall'.result = "panic" => RefPointerIsNil(cur')
          /\ pcall'.result = "ok" => ~RefPointerIsNil(cur') /\ Gen(cur') = 0
      ]_vars

\* NewReference has panicked on a zero metadata address given with a
\* non-zero object address.
NilConstructionWitness ==
    /\ pcall.op = "NewReference"
    /\ pcall.result = "panic"
    /\ pcall.a # 0
    /\ pcall.b = 0

\* ---------------------------------------------------------------------
\* C14: Generation counting. The slot of the slab a metadata address
\* belongs to, and whether the pool has ever handed the slot out.
SlotOf(a) == CHOOSE i \in 1..SlabSlots : MmapSlab.metadata[i] = a

NeverUsed(a) == SlotOf(a) > pool.offset

TypesAllocated == {mhandles[id].type : id \in 1..Len(mhandles)}

\* A pool exists exactly for the types allocated so far; every live
\* reference reads back, through GetValue, the value last written to it; a
\* step changes the pool of the type it is made for and no other pool, and
\* only the first Alloc of a type makes a pool.
MultiTypeIsolation ==
    /\ [](/\ DOMAIN pools = TypesAllocated
          /\ \A id \in 1..Len(mhandles) :
                LET h   == mhandles[id]
                    got == GetValue(pools, h.type, h.ref)
                IN  h.live =>
                      /\ ~got.panic
                      /\ got.ptr = h.ptr
                      /\ pools[h.type].heap[got.ptr] = h.written)
    /\ [][ /\ \A t \in DOMAIN pools : t # mcall'.type => pools'[t] = pools[t]
           /\ DOMAIN pools' # DOMAIN pools =>
                 /\ mcall'.op = "Alloc"
                 /\ mcall'.type \notin DOMAIN pools
                 /\ DOMAIN pools' = DOMAIN pools \cup {mcall'.type}
         ]_vars

\* Round-robin allocation has reached every type and spilled into a second
\* chunk, after an object of another type was modified and one was freed.
MultiTypeIsolationWitness ==
    /\ DOMAIN pools = 0..(numberOfTypes - 1)
    /\ \E id \in 1..Len(mhandles) :
          /\ mhandles[id].live
          /\ mhandles[id].ref.chunk > 1
          /\ \E j \in 1..Len(mhandles) :
                /\ mhandles[j].type # mhandles[id].type
                /\ mhandles[j].live
                /\ mhandles[j].written = (j - 1) * 2
                /\ mhandles[j].written # 0
          /\ \E j \in 1..Len(mhandles) :
                mhandles[j].type # mhandles[id].type /\ ~mhandles[j].live

\* ---------------------------------------------------------------------
\* C21: Slot state. The slots on the free list, and the slots of the
\* current chunk at or beyond the bump offset, which no Alloc has handed out.
OnFreeList(st) == {FreeList(st)[i] : i \in 1..Len(FreeList(st))}

NeverAllocated(st) ==
    {r \in AllSlots(st) : r.chunk = Len(st.objects) /\ r.offset > st.offset}

\* A slot's nextFree is non-nil exactly when the slot is on the free list;
\* for a client that frees each reference once, every live slot and every
\* slot never allocated has nil nextFree.
SlotState ==
    /\ \A r \in AllSlots(s) : ~IsNil(getMeta(s, r).nextFree) <=> r \in OnFreeList(s)
    /\ \A r \in NeverAllocated(s) : IsNil(getMeta(s, r).nextFree)
    /\ ~misused => \A id \in Ids : Held(id) => IsNil(getMeta(s, handles[id].ref).nextFree)

\* Two slots are on the free list, one is live again after a reuse, and one
\* slot of the current chunk was never allocated.
SlotStateWitness ==
    /\ ~misused
    /\ Cardinality(OnFreeList(s)) = 2
    /\ s.reused >= 1
    /\ \E id \in Ids : Held(id)
    /\ NeverAllocated(s) # {}

\* ---------------------------------------------------------------------
\* C22: Alloc order. With a non-nil root Alloc returns the slot at the
\* root, which for a client that frees each reference once is the slot
\* freed last among those freed and not reused; the new root is that slot's
\* former nextFree, or nil when that was the slot itself; the offset, the
\* chunks and the objects stay as they were.  With a nil root Alloc returns
\* a slot never allocated before and the root stays nil.
AllocOrder ==
    [][ (call'.op = "Alloc" /\ Len(handles') = Len(handles) + 1) =>
          LET new  == handles'[Len(handles')]
              root == s.rootFree
          IN  IF ~IsNil(root)
              THEN /\ new.ref = root
                   /\ new.ptr = getObject(s, root)
                   /\ s'.rootFree = IF getMeta(s, root).nextFree = root THEN NilRef
                                    ELSE getMeta(s, root).nextFree
                   /\ s'.reused = s.reused + 1
                   /\ s'.offset = s.offset
                   /\ s'.objects = s.objects
                   /\ Len(s'.meta) = Len(s.meta)
                   /\ heap' = heap
                   /\ ~misused =>
                         \E id \in Ids :
                            /\ FreedNotReused(id)
                            /\ handles[id].ref = root
                            /\ \A j \in Ids : FreedNotReused(j) =>
                                  handles[j].freedSeq <= handles[id].freedSeq
              ELSE /\ new.ref \in NeverAllocated(s)
                   /\ s'.reused = s.reused
                   /\ IsNil(s'.rootFree)
                   /\ ~misused => \A id \in Ids : ~FreedNotReused(id)
      ]_vars

\* An Alloc has returned the slot freed second, leaving the slot freed
\* first on the free list.
AllocOrderWitness ==
    /\ ~misused
    /\ call.op = "Alloc"
    /\ ~IsNil(s.rootFree)
    /\ \E i \in Ids : /\ i < call.id
                      /\ handles[i].ref = handles[call.id].ref
                      /\ handles[i].freedSeq = 2

\* ---------------------------------------------------------------------
\* C23: Bump allocation and chunk growth. The n-th Alloc served from the
\* offset returns chunk floor((n-1)/chunkSize)+1 and offset
\* ((n-1) mod chunkSize)+1, a slot the store already has; it appends a chunk
\* exactly when it hands out the last slot of the current chunk; in every
\* state the store has floor(RawAllocs/chunkSize)+1 chunks, of meta and of
\* objects alike.
BumpAllocation ==
    /\ [](/\ GetStats(s).Chunks = (GetStats(s).RawAllocs \div s.chunkSize) + 1
          /\ Len(s.meta) = Len(s.objects)
          /\ s.offset = GetStats(s).RawAllocs % s.chunkSize)
    /\ [][ (call'.op = "Alloc" /\ Len(handles') = Len(handles) + 1 /\ IsNil(s.rootFree)) =>
             LET new == handles'[Len(handles')]
                 n   == GetStats(s').RawAllocs
             IN  /\ n = GetStats(s).RawAllocs + 1
                 /\ new.ref.chunk = ((n - 1) \div s.chunkSize) + 1
                 /\ new.ref.offset = ((n - 1) % s.chunkSize) + 1
                 /\ new.ref \in AllSlots(s)
                 /\ new.ptr \in 1..Len(heap)
                 /\ new.ptr = getObject(s, new.ref)
                 /\ IF new.ref.offset = s.chunkSize
                    THEN /\ Len(s'.objects) = Len(s.objects) + 1
                         /\ Len(heap') = Len(heap) + s.chunkSize
                    ELSE /\ s'.objects = s.objects
                         /\ Len(heap') = Len(heap)
         ]_vars

\* Allocations from the offset have filled the first chunk and gone on
\* into the second, after a slot was freed and reused.
BumpAllocationWitness ==
    /\ call.op = "Alloc"
    /\ handles[call.id].ref.chunk = 2
    /\ s.reused >= 1
    /\ GetStats(s).RawAllocs = objectChunkSize + 1
    /\ GetStats(s).Chunks = 2

\* ---------------------------------------------------------------------
\* C24: Writer frame. An Alloc leaves the contents of every object that
\* existed before it and the metadata of every slot other than the one it
\* returns as they were; a Free(r), panicking or not, leaves all object
\* contents, the freed object's included, and the metadata of every slot
\* other than r's as they were, and adds no slot.
WriterFrame ==
    [][ /\ (call'.op = "Alloc" /\ Len(handles') = Len(handles) + 1) =>
              LET new == handles'[Len(handles')]
              IN  /\ \A p \in 1..Len(heap) : heap'[p] = heap[p]
                  /\ \A r \in AllSlots(s) :
                        r # new.ref => getMeta(s', r) = getMeta(s, r)
        /\ call'.op = "Free" =>
              /\ heap' = heap
              /\ AllSlots(s') = AllSlots(s)
              /\ s'.objects = s.objects
              /\ \A r \in AllSlots(s) :
                    r # handles[call'.id].ref => getMeta(s', r) = getMeta(s, r)
      ]_vars

\* An Alloc has reused a slot whose object still holds what was written to
\* it before its Free, while another slot is on the free list and another
\* live object holds a written value.
WriterFrameWitness ==
    /\ call.op = "Alloc"
    /\ ~IsNil(s.rootFree)
    /\ \E i \in Ids : /\ i < call.id
                      /\ handles[i].ref = handles[call.id].ref
                      /\ handles[i].written # 0
                      /\ heap[handles[call.id].ptr] = handles[i].written
    /\ \E j \in Ids : /\ Held(j)
                      /\ j # call.id
                      /\ handles[j].written # 0
                      /\ heap[handles[j].ptr] = handles[j].written

\* ---------------------------------------------------------------------
\* C25: Get is read-only. A Get(r), returning or panicking, writes no
\* location and leaves the store (counters, offset, root, chunk lists and
\* every slot's metadata) and every object's contents as they were.
GetIsReadOnly ==
    /\ [](\A id \in Ids : GetWrites(s, handles[id].ref) = {}
                          /\ Get(s, handles[id].ref).s = s)
    /\ [][ call'.op = "Get" => /\ s' = s
                               /\ heap' = heap
                               /\ GetStats(s') = GetStats(s)
         ]_vars

\* A Get has panicked on a freed slot that is still on the free list.
GetIsReadOnlyWitness ==
    /\ call.op = "Get"
    /\ call.result = "panic"
    /\ handles[call.id].ref \in OnFreeList(s)
    /\ \E id \in Ids : Held(id)

\* ---------------------------------------------------------------------
\* C26: Free-list size. The slots on the free list, which are the slots
\* with a non-nil nextFree, number Frees - Reused, and the root is nil
\* exactly when Frees = Reused.
FreeListSize ==
    LET stats == GetStats(s)
    IN  /\ Len(FreeList(s)) = stats.Frees - stats.Reused
        /\ Cardinality(OnFreeList(s)) = stats.Frees - stats.Reused
        /\ Cardinality({r \in AllSlots(s) : ~IsNil(getMeta(s, r).nextFree)})
              = stats.Frees - stats.Reused
        /\ IsNil(s.rootFree) <=> stats.Frees = stats.Reused

\* Three Frees and one reuse have left two slots on the free list.
FreeListSizeWitness ==
    /\ ~misused
    /\ s.frees = 3
    /\ s.reused = 1
    /\ Len(FreeList(s)) = 2

\* ---------------------------------------------------------------------
\* C27: View.overlaps. Two views share a point when some point is contained
\* in both closed rectangles.
SharePoint(v, ov) ==
    \E x, y \in (-MaxFloat)..MaxFloat : containsPoint(v, x, y) /\ containsPoint(ov, x, y)

\* overlaps is reflexive and symmetric, and it returns true exactly when the
\* two views share a point, which is when their extents meet on both axes.
OverlapsIsSharedPoint ==
    /\ \A i \in 1..Len(views) : overlaps(views[i], views[i])
    /\ Len(views) = 2 =>
          LET v == views[1]  ov == views[2]
          IN  /\ overlaps(v, ov) = overlaps(ov, v)
              /\ overlaps(v, ov) <=> SharePoint(v, ov)
              /\ overlaps(v, ov) <=> (/\ v.lx <= ov.rx /\ ov.lx <= v.rx
                                      /\ v.by <= ov.ty /\ ov.by <= v.ty)
              /\ vcall.op = "overlaps" => vcall.value = SharePoint(v, ov)

\* overlaps has returned true for a view lying entirely inside the other,
\* no border touching.
OverlapsWitness ==
    /\ Len(views) = 2
    /\ vcall.op = "overlaps"
    /\ vcall.value = TRUE
    /\ views[1].lx > views[2].lx
    /\ views[1].rx < views[2].rx
    /\ views[1].by > views[2].by
    /\ views[1].ty < views[2].ty

\* ---------------------------------------------------------------------
\* C28: View.quarters. A view is valid when its coordinates are in order.
ValidView(v) == v.lx <= v.rx /\ v.by <= v.ty

Points == (-MaxFloat)..MaxFloat

\* quarters of a valid view does not panic and returns four valid views, no
\* point is contained in two different quarters, and every point contained
\* in the view is contained in one of the quarters.
QuartersPartition ==
    (vcall.op = "quarters" /\ ValidView(views[1])) =>
        /\ vcall.result = "ok"
        /\ Len(vcall.value) = 4
        /\ \A i \in 1..4 : ValidView(vcall.value[i])
        /\ \A i, j \in 1..4 : i # j =>
              \A x, y \in Points :
                 ~(containsPoint(vcall.value[i], x, y) /\ containsPoint(vcall.value[j], x, y))
        /\ \A x, y \in Points :
              containsPoint(views[1], x, y) =>
                 \E i \in 1..4 : containsPoint(vcall.value[i], x, y)

====
